---- MODULE Spec2Model ----
(***************************************************************************)
(* A model of uno_term (src/uno_term/uno.py): the card and deck model, the *)
(* piles, the players' hands, the turn cycle, Game.__init__, the turn loop *)
(* of Game.run and the replay loop of main.                                *)
(*                                                                         *)
(* A card is a record [id, color, type]: color and type are the fields of  *)
(* the Card dataclass, id stands for the identity of the Python object.    *)
(* Players are the indices 0..n-1 of the list returned by get_players, so  *)
(* the element of the Cycle at index i is player i % n.                    *)
(***************************************************************************)
EXTENDS Integers, Sequences, FiniteSets

(* ---------------------------- bounds ----------------------------------- *)

\* largest number of players get_players is asked for in the model
MaxPlayers == 3
\* iterations of the turn loop of Game.run over one session of main
MaxTurns == 3
\* games constructed in one session of main
MaxGames == 2
\* number of different outcomes of random.shuffle that are explored
MaxShuffles == 4

(* ---------------------------- CardColor -------------------------------- *)

None == 0
Red == 1
Blue == 2
Green == 3
Yellow == 4

CardColor == <<Red, Blue, Green, Yellow>>

(* ---------------------------- CardType --------------------------------- *)

Zero == 0
Nine == 9
Skip == 10
Reverse == 11
DrawTwo == 12
WildDrawFour == 13
Wild == 14

\* the members of the enumeration in definition order
CardType == [i \in 1..(Wild + 1) |-> i - 1]

isWild(type) == type \in {Wild, WildDrawFour}

numerics == SelectSeq(CardType, LAMBDA type : ~isWild(type))

wilds == SelectSeq(CardType, isWild)

numbers == SelectSeq(CardType, LAMBDA type : type <= Nine)

draws == SelectSeq(CardType, LAMBDA type : type \in {DrawTwo, WildDrawFour})

\* a WildDrawFour that costs what a DrawTwo costs
draw_amount_two(type) ==
    CASE type = WildDrawFour -> 2
      [] type = DrawTwo -> 2
      [] OTHER -> 0

draw_amount(type) ==
    CASE type = WildDrawFour -> 4
      [] type = DrawTwo -> 2
      [] OTHER -> 0

Range(seq) == {seq[i] : i \in DOMAIN seq}

Colors == Range(CardColor)

NumberTypes == Range(numbers)

DrawTypes == Range(draws)

(* ------------------------------ Card ----------------------------------- *)

Card(color, type) == [id |-> 0, color |-> color, type |-> type]

NoCard == [id |-> -1, color |-> None, type |-> -1]

(* ------------------------------ Deck ----------------------------------- *)

RECURSIVE Flatten(_)
Flatten(seqs) ==
    IF seqs = <<>> THEN <<>> ELSE Head(seqs) \o Flatten(Tail(seqs))

\* a deck with two Zeros per color
CopiesPerColorTwo(type) == 2

\* 2 copies of each card per color, except zero which only gets one
CopiesPerColor(type) == IF type = Zero THEN 1 ELSE 2

\* create 4 of each type of wild
WildCopies == 4

\* the list standard_deck returns: the colored cards color by color and
\* type by type, then the wilds
StandardCards ==
    LET wild_cards ==
            Flatten([t \in DOMAIN wilds |->
                [i \in 1..WildCopies |-> Card(None, wilds[t])]])
        normal ==
            Flatten([c \in DOMAIN CardColor |->
                Flatten([t \in DOMAIN numerics |->
                    [i \in 1..CopiesPerColor(numerics[t]) |->
                        Card(CardColor[c], numerics[t])]])])
    IN  normal \o wild_cards

\* every Card(...) call makes a new object: number them from base
Numbered(cards, base) ==
    [i \in DOMAIN cards |-> [cards[i] EXCEPT !.id = base + i - 1]]

standard_deck(base) == Numbered(StandardCards, base)

DeckSize == Len(StandardCards)

\* random.shuffle leaves some permutation of the list. The model explores
\* the permutations i -> (cut + stride * i) mod length for a few (cut, stride)
\* and one stacked deck.
ShuffleCuts == <<0, 31, 58, 77, 12, 95, 40, 66>>

ShuffleStrides == <<1, 5, 7, 11, 13, 17, 19, 23>>

\* The stacked deck, for two players: from the top, the cards go in turn to
\* the first player, who gets no wild, no Yellow and no Nine, and to the
\* second; a Yellow Nine and one more card of the first kind are at the
\* bottom. Each of the two runs starts with its Skips, Reverses and DrawTwos.
stacked(cards) ==
    LET plain(c) == c.color \in {Red, Blue, Green} /\ c.type # Nine
        ordered(cs) == SelectSeq(cs, LAMBDA c : c.type > Nine)
                           \o SelectSeq(cs, LAMBDA c : c.type <= Nine)
        half == (Len(cards) - 2) \div 2
        all_plain == SelectSeq(cards, plain)
        first == ordered(SubSeq(all_plain, 1, half))
        bottom == all_plain[half + 1]
        start == SelectSeq(cards, LAMBDA c : c.color = Yellow /\ c.type = Nine)[1]
        second == ordered(SelectSeq(cards, LAMBDA c :
                      /\ c \notin Range(SubSeq(all_plain, 1, half + 1))
                      /\ c # start))
    IN  <<bottom, start>> \o
            [j \in 1..(2 * half) |->
                IF j % 2 = 0 THEN first[j \div 2] ELSE second[(j + 1) \div 2]]

shuffle(cards, s) ==
    LET cut == ShuffleCuts[((s - 1) % Len(ShuffleCuts)) + 1]
        stride == ShuffleStrides[((s - 1) % Len(ShuffleStrides)) + 1]
    IN  IF s = 0
        THEN stacked(cards)
        ELSE [i \in DOMAIN cards |->
                 cards[((cut + stride * (i - 1)) % Len(cards)) + 1]]

\* Deck.__init__: a standard deck of new cards, shuffled
Deck(base, s) == shuffle(standard_deck(base), s)

(* ------------------------------ Pile ----------------------------------- *)

\* the top of a pile is the end of the list
top_card(pile) == pile[Len(pile)]

\* a card that is put under the pile
play_under(pile, c) == <<c>> \o pile

play(pile, c) == Append(pile, c)

\* a take that gives the cards there are when the pile is short
take_short(pile, number) ==
    IF number <= Len(pile)
    THEN [raised |-> FALSE,
          cards |-> [i \in 1..number |-> pile[Len(pile) - i + 1]],
          pile |-> SubSeq(pile, 1, Len(pile) - number)]
    ELSE [raised |-> FALSE,
          cards |-> [i \in 1..Len(pile) |-> pile[Len(pile) - i + 1]],
          pile |-> <<>>]

\* [self.pop() for _ in range(number)]: the cards come off one by one, the
\* top card first; a pop of the empty list raises IndexError, and the cards
\* popped before it are in the unfinished list, which is dropped
take(pile, number) ==
    IF number <= Len(pile)
    THEN [raised |-> FALSE,
          cards |-> [i \in 1..number |-> pile[Len(pile) - i + 1]],
          pile |-> SubSeq(pile, 1, Len(pile) - number)]
    ELSE [raised |-> TRUE, cards |-> <<>>, pile |-> <<>>]

(* ------------------------------ Player --------------------------------- *)

\* index of the first card of the hand with this color and type, 0 if none
find_card(hand, color, type) ==
    LET found == {i \in DOMAIN hand : hand[i].color = color /\ hand[i].type = type}
    IN  IF found = {} THEN 0 ELSE CHOOSE i \in found : \A j \in found : i <= j

RemoveAt(seq, idx) == SubSeq(seq, 1, idx - 1) \o SubSeq(seq, idx + 1, Len(seq))

\* a card that is returned and stays in the hand
play_card_keep(hand, color, type) ==
    LET idx == find_card(hand, color, type)
    IN  IF idx = 0
        THEN [card |-> NoCard, hand |-> hand]
        ELSE [card |-> hand[idx], hand |-> hand]

play_card(hand, color, type) ==
    LET idx == find_card(hand, color, type)
    IN  IF idx = 0
        THEN [card |-> NoCard, hand |-> hand]
        ELSE [card |-> hand[idx], hand |-> RemoveAt(hand, idx)]

\* a hand that is replaced by the cards taken
take_cards_replace(hand, cards) == cards

take_cards(hand, cards) == hand \o cards

take_from_pile(hand, pile, qty) ==
    LET taken == take(pile, qty)
    IN  [raised |-> taken.raised,
         cards |-> taken.cards,
         pile |-> taken.pile,
         hand |-> IF taken.raised THEN hand ELSE take_cards(hand, taken.cards)]

\* a hand that counts as empty with its last card still in it
has_no_cards_one(hand) == Len(hand) = 1

has_no_cards(hand) == Len(hand) = 0

\* a legality check that forgets the match of the types
is_valid_play_no_type(current, playing) ==
    \/ isWild(playing.type)
    \/ playing.color = current.color

is_valid_play(current, playing) ==
    \/ isWild(playing.type)
    \/ playing.color = current.color
    \/ playing.type = current.type

has_valid_play(hand, current) ==
    {i \in DOMAIN hand : is_valid_play(current, hand[i])} # {}

\* what parse_to_enums can make of the text typed at the prompt: "draw", or
\* a color (None when the first word is no color) and a type (NoType when
\* the rest is no type)
NoType == -1

Choices ==
    [draw : {TRUE}, color : {None}, type : {NoType}]
        \cup [draw : {FALSE}, color : {None} \cup Colors,
              type : {NoType} \cup Range(CardType)]

\* a prompt that takes any held card that is named
get_action_any(hand, current, choice) ==
    LET idx == find_card(hand, choice.color, choice.type)
        played == play_card(hand, choice.color, choice.type)
    IN  IF choice.draw
        THEN [type |-> "Draw", card |-> NoCard, hand |-> hand]
        ELSE IF choice.type = NoType \/ idx = 0
        THEN [type |-> "Retry", card |-> NoCard, hand |-> hand]
        ELSE [type |-> "Play", card |-> played.card, hand |-> played.hand]

\* one pass of the prompt loop of get_action: "Retry" is a rejected input,
\* after which the loop prompts again with the hand as it was
get_action(hand, current, choice) ==
    LET idx == find_card(hand, choice.color, choice.type)
        played == play_card(hand, choice.color, choice.type)
    IN  IF choice.draw
        THEN [type |-> "Draw", card |-> NoCard, hand |-> hand]
        ELSE IF choice.type = NoType \/ idx = 0
                \/ ~is_valid_play(current, hand[idx])
        THEN [type |-> "Retry", card |-> NoCard, hand |-> hand]
        ELSE [type |-> "Play", card |-> played.card, hand |-> played.hand]

\* the prompt loop of get_action over the texts typed one after the other,
\* with its variables color, type and valid as the loop keeps them from one
\* pass to the next; "Retry" is the loop still prompting when the texts end
RECURSIVE get_action_loop(_, _, _, _, _, _)
get_action_loop(hand, current, inputs, color, type, valid) ==
    IF ~(type = NoType \/ ~valid)
    THEN [type |-> "Play",
          card |-> play_card(hand, color, type).card,
          hand |-> play_card(hand, color, type).hand]
    ELSE IF inputs = <<>>
    THEN [type |-> "Retry", card |-> NoCard, hand |-> hand]
    ELSE IF Head(inputs).draw
    THEN [type |-> "Draw", card |-> NoCard, hand |-> hand]
    ELSE IF Head(inputs).type = NoType
    THEN get_action_loop(hand, current, Tail(inputs),
                         Head(inputs).color, NoType, valid)
    ELSE IF find_card(hand, Head(inputs).color, Head(inputs).type) = 0
    THEN get_action_loop(hand, current, Tail(inputs),
                         Head(inputs).color, Head(inputs).type, valid)
    ELSE get_action_loop(hand, current, Tail(inputs),
             Head(inputs).color, Head(inputs).type,
             is_valid_play(current,
                 hand[find_card(hand, Head(inputs).color, Head(inputs).type)]))

(* ------------------------------ Cycle ---------------------------------- *)

\* an index that is used as it comes
wrapped_none(index, length) == index

wrapped(index, length) == index % length

advance(pointer, reversed, length, step) ==
    wrapped(pointer + (IF reversed THEN -step ELSE step), length)

\* a next that does not look at skip
next_no_skip(pointer, reversed, length, step, skip) ==
    advance(pointer, reversed, length, step)

next(pointer, reversed, length, step, skip) ==
    advance(pointer, reversed, length, step + (IF skip THEN 1 ELSE 0))

peek_next(pointer, reversed, length, step) == wrapped(pointer + step, length)

previous(pointer, reversed, length, step) ==
    advance(pointer, reversed, length, -step)

\* a reverse that leaves the direction as it is
reverse_never(reversed) == reversed

reverse(reversed) == ~reversed

(* ------------------------------ state ---------------------------------- *)

VARIABLES
    pc,                 \* where the program is: "main", "new_game", "dealing",
                        \* "turn", "won", "error", "exit"
    hands,              \* Player.hand of every player of the list `players`
    deck,               \* the local deck of Game.__init__
    draw_pile,          \* Game.draw_pile, top at the end
    discard_pile,       \* Game.discard_pile, top at the end
    pointer,            \* Cycle.pointer of Game.turn_cycle
    reversed,           \* Cycle.reversed of Game.turn_cycle
    initial_hand_size,  \* the argument of Game.__init__
    winner,             \* the local winner of Game.run, NoPlayer for None
    action,             \* the locals of the last iteration of the turn loop;
    card,               \*   the ones the iteration did not assign are None
    skip,
    next_player,
    turns,              \* iterations of the turn loop so far
    games               \* decks built so far

vars == <<pc, hands, deck, draw_pile, discard_pile, pointer, reversed,
          initial_hand_size, winner, action, card, skip, next_player,
          turns, games>>

cycle == <<pointer, reversed>>

locals == <<action, card, skip, next_player>>

NoPlayer == -1

\* the players are the indices of the list
NumPlayers == Cardinality(DOMAIN hands)

Players == 0..(NumPlayers - 1)

\* the values of initial_hand_size Game is constructed with: main passes
\* none, which is the default of the signature; a Game constructed with the
\* argument gets a small hand with every deck, and with the stacked deck and
\* two players also the two sizes that leave a draw pile of one and of three
\* cards
DefaultHandSize == 7

HandSizes(cards, n) ==
    {1, 2, DefaultHandSize}
        \cup IF n = 2 /\ cards = stacked(standard_deck(cards[1].id - (cards[1].id % DeckSize)))
             THEN {(DeckSize - 4) \div 2, (DeckSize - 2) \div 2}
             ELSE {}

Init ==
    /\ pc = "main"
    /\ hands = <<>>
    /\ deck = <<>>
    /\ draw_pile = <<>>
    /\ discard_pile = <<>>
    /\ pointer = 0
    /\ reversed = FALSE
    /\ initial_hand_size = 0
    /\ winner = NoPlayer
    /\ action = "None"
    /\ card = NoCard
    /\ skip = FALSE
    /\ next_player = NoPlayer
    /\ turns = 0
    /\ games = 0

(* ------------------------------ main ----------------------------------- *)

\* range(start, stop) of Python: stop is not in it
range(start, stop) == start..(stop - 1)

\* int(input(...)): an entry that is no number raises ValueError
int(entry) ==
    IF entry.numeric
    THEN [raised |-> FALSE, value |-> entry.value]
    ELSE [raised |-> TRUE, value |-> 0]

\* the test of get_players on the number typed
valid_number(value) == value \in range(2, 10)

\* an entry that ends the prompt loop of get_players; any other one prints
\* the message and prompts again
accepted(entry) == ~int(entry).raised /\ valid_number(int(entry).value)

\* get_players: the count typed at the prompt is taken when it is in
\* range(2, 10); every player starts with an empty hand
get_players(value) == [p \in 0..(value - 1) |-> <<>>]

\* main: no players yet, or "Use the same players?" answered no
GetPlayers(value) ==
    /\ pc = "main"
    /\ valid_number(value)
    /\ hands' = get_players(value)
    /\ pc' = "new_game"
    /\ UNCHANGED <<deck, draw_pile, discard_pile, cycle, initial_hand_size,
                   winner, locals, turns, games>>

\* main: "Use the same players?" answered yes
SamePlayers ==
    /\ pc = "main"
    /\ NumPlayers > 0
    /\ pc' = "new_game"
    /\ UNCHANGED <<hands, deck, draw_pile, discard_pile, cycle,
                   initial_hand_size, winner, locals, turns, games>>

(* --------------------------- Game.__init__ ----------------------------- *)

\* deck = Deck()
DeckInit(s) ==
    /\ pc = "new_game"
    /\ games < MaxGames
    /\ deck' = Deck(games * DeckSize, s)
    /\ games' = games + 1
    /\ pc' = "dealing"
    /\ UNCHANGED <<hands, draw_pile, discard_pile, cycle, initial_hand_size,
                   winner, locals, turns>>

\* the deal: hand_size rounds, in each one card popped for every player in
\* list order, so player p gets the cards number p, n + p, 2n + p, ... from
\* the top of the deck
dealt(cards, n, hand_size, p) ==
    [r \in 1..hand_size |-> cards[Len(cards) - ((r - 1) * n + p)]]

after_deal(cards, n, hand_size) == SubSeq(cards, 1, Len(cards) - n * hand_size)

\* a search that drops the cards it passes over
RECURSIVE find_top_card_drop(_)
find_top_card_drop(cards) ==
    LET top == cards[Len(cards)]
        rest == SubSeq(cards, 1, Len(cards) - 1)
    IN  IF top.type \in NumberTypes
        THEN [top_card |-> top, deck |-> rest]
        ELSE find_top_card_drop(rest)

\* the while loop: pop the top card and stop at the first numeric one; any
\* other card goes back in at index 0 of the deck
RECURSIVE find_top_card(_)
find_top_card(cards) ==
    LET top == cards[Len(cards)]
        rest == SubSeq(cards, 1, Len(cards) - 1)
    IN  IF top.type \in NumberTypes
        THEN [top_card |-> top, deck |-> rest]
        ELSE find_top_card(<<top>> \o rest)

GameInit ==
    /\ pc = "dealing"
    /\ \E hand_size \in HandSizes(deck, NumPlayers) :
       /\ NumPlayers * hand_size < Len(deck)
       /\ initial_hand_size' = hand_size
       /\ LET rest == after_deal(deck, NumPlayers, hand_size)
              found == find_top_card(rest)
          IN  /\ {i \in DOMAIN rest : rest[i].type \in NumberTypes} # {}
              /\ hands' = [p \in Players |->
                     take_cards(hands[p], dealt(deck, NumPlayers, hand_size, p))]
              /\ discard_pile' = <<found.top_card>>
              /\ draw_pile' = found.deck
    /\ deck' = <<>>
    /\ pointer' = 0
    /\ reversed' = FALSE
    /\ winner' = NoPlayer
    /\ action' = "None"
    /\ card' = NoCard
    /\ skip' = FALSE
    /\ next_player' = NoPlayer
    /\ pc' = "turn"
    /\ UNCHANGED <<turns, games>>

(* ----------------------------- Game.run -------------------------------- *)

\* the start of an iteration for player = turn_cycle[pointer]
current == top_card(discard_pile)

\* force the player to draw if they don't have any valid cards
forced == ~has_valid_play(hands[pointer], current)

\* a forced draw of two cards
forced_draw_two == take_from_pile(hands[pointer], draw_pile, 2)

forced_draw == take_from_pile(hands[pointer], draw_pile, 1)

hand_1 == IF forced THEN forced_draw.hand ELSE hands[pointer]

pile_1 == IF forced THEN forced_draw.pile ELSE draw_pile

InTurn == pc = "turn" /\ turns < MaxTurns

\* the forced draw finds the draw pile empty
RunForcedDrawError ==
    /\ InTurn
    /\ forced /\ forced_draw.raised
    /\ draw_pile' = forced_draw.pile
    /\ action' = "None" /\ card' = NoCard /\ skip' = FALSE
    /\ next_player' = NoPlayer
    /\ pc' = "error"
    /\ turns' = turns + 1
    /\ UNCHANGED <<hands, deck, discard_pile, cycle, initial_hand_size,
                   winner, games>>

\* the card drawn is no valid play either: the turn ends
RunPass ==
    /\ InTurn
    /\ forced /\ ~forced_draw.raised
    /\ ~has_valid_play(hand_1, current)
    /\ hands' = [hands EXCEPT ![pointer] = hand_1]
    /\ draw_pile' = pile_1
    /\ action' = "None" /\ card' = NoCard /\ skip' = FALSE
    /\ next_player' = NoPlayer
    /\ pointer' = next(pointer, reversed, NumPlayers, 1, FALSE)
    /\ turns' = turns + 1
    /\ UNCHANGED <<pc, deck, discard_pile, reversed, initial_hand_size,
                   winner, games>>

\* get_action is called when the player has a valid play
Asked == InTurn /\ ~(forced /\ forced_draw.raised) /\ has_valid_play(hand_1, current)

\* the texts typed at the prompt of get_action that the model explores:
\* "draw", the name of every card of the hand, and one text that is no card
Typed ==
    {[draw |-> TRUE, color |-> None, type |-> NoType],
     [draw |-> FALSE, color |-> None, type |-> NoType]}
        \cup {[draw |-> FALSE, color |-> hand_1[i].color, type |-> hand_1[i].type] :
                i \in DOMAIN hand_1}

\* the play empties the hand
RunWin ==
    /\ Asked
    /\ \E choice \in Typed :
       LET got == get_action(hand_1, current, choice)
       IN  /\ got.type = "Play"
           /\ has_no_cards(got.hand)
           /\ hands' = [hands EXCEPT ![pointer] = got.hand]
           /\ action' = got.type
           /\ card' = got.card
    /\ draw_pile' = pile_1
    /\ skip' = FALSE
    /\ next_player' = NoPlayer
    /\ winner' = pointer
    /\ pc' = "won"
    /\ turns' = turns + 1
    /\ UNCHANGED <<deck, discard_pile, cycle, initial_hand_size, games>>

\* the player chooses to draw
RunDraw ==
    /\ Asked
    /\ \E choice \in Typed :
       LET got == get_action(hand_1, current, choice)
           drawn == take_from_pile(got.hand, pile_1, 1)
       IN  /\ got.type = "Draw"
           /\ ~drawn.raised
           /\ hands' = [hands EXCEPT ![pointer] = drawn.hand]
           /\ draw_pile' = drawn.pile
           /\ action' = got.type
           /\ card' = got.card
    /\ skip' = FALSE
    /\ next_player' = NoPlayer
    /\ pointer' = next(pointer, reversed, NumPlayers, 1, FALSE)
    /\ turns' = turns + 1
    /\ UNCHANGED <<pc, deck, discard_pile, reversed, initial_hand_size,
                   winner, games>>

\* the player chooses to draw and the draw pile is empty
RunDrawError ==
    /\ Asked
    /\ \E choice \in Typed :
       LET got == get_action(hand_1, current, choice)
           drawn == take_from_pile(got.hand, pile_1, 1)
       IN  /\ got.type = "Draw"
           /\ drawn.raised
           /\ hands' = [hands EXCEPT ![pointer] = drawn.hand]
           /\ draw_pile' = drawn.pile
           /\ action' = got.type
           /\ card' = got.card
    /\ skip' = FALSE
    /\ next_player' = NoPlayer
    /\ pc' = "error"
    /\ turns' = turns + 1
    /\ UNCHANGED <<deck, discard_pile, cycle, initial_hand_size, winner, games>>

\* if a wild is played, the player must assign a color: the prompt is
\* repeated until the answer is a color, and there is no prompt (None) for
\* a card that has a color or is no wild
color_prompt(played) ==
    IF isWild(played.type) /\ played.color = None THEN Colors ELSE {None}

\* a wild that is put down as it was held
assign_color_never(played, chosen) == played

assign_color(played, chosen) ==
    IF isWild(played.type) /\ played.color = None
    THEN [played EXCEPT !.color = chosen]
    ELSE played

\* the side effects of a played card that does not empty the hand
Played(choice) ==
    LET got == get_action(hand_1, current, choice)
        peeked == peek_next(pointer, reversed, NumPlayers, 1)
        penalty == take_from_pile(hands[peeked], pile_1,
                                  draw_amount(got.card.type))
    IN  [got |-> got, next_player |-> peeked, penalty |-> penalty]

RunPlay ==
    /\ Asked
    /\ \E choice \in Typed :
       LET got == Played(choice).got
           peeked == Played(choice).next_player
           penalty == Played(choice).penalty
           is_draw == got.card.type \in DrawTypes
       IN  /\ got.type = "Play"
           /\ ~has_no_cards(got.hand)
           /\ ~(is_draw /\ penalty.raised)
           /\ reversed' = IF got.card.type = Reverse
                         THEN reverse(reversed) ELSE reversed
           /\ hands' = IF is_draw
                       THEN [hands EXCEPT ![pointer] = got.hand,
                                          ![peeked] = penalty.hand]
                       ELSE [hands EXCEPT ![pointer] = got.hand]
           /\ draw_pile' = IF is_draw THEN penalty.pile ELSE pile_1
           /\ skip' = (got.card.type = Skip)
           /\ \E chosen \in color_prompt(got.card) :
                 card' = assign_color(got.card, chosen)
           /\ discard_pile' = play(discard_pile, card')
           /\ action' = got.type
           /\ next_player' = peeked
    /\ pointer' = next(pointer, reversed', NumPlayers, 1, skip')
    /\ turns' = turns + 1
    /\ UNCHANGED <<pc, deck, initial_hand_size, winner, games>>

\* a DrawTwo or WildDrawFour is played and the draw pile cannot pay
RunPenaltyError ==
    /\ Asked
    /\ \E choice \in Typed :
       LET got == Played(choice).got
           peeked == Played(choice).next_player
           penalty == Played(choice).penalty
       IN  /\ got.type = "Play"
           /\ ~has_no_cards(got.hand)
           /\ got.card.type \in DrawTypes
           /\ penalty.raised
           /\ hands' = [hands EXCEPT ![pointer] = got.hand,
                                     ![peeked] = penalty.hand]
           /\ draw_pile' = penalty.pile
           /\ action' = got.type
           /\ card' = got.card
           /\ next_player' = peeked
    /\ skip' = FALSE
    /\ pc' = "error"
    /\ turns' = turns + 1
    /\ UNCHANGED <<deck, discard_pile, cycle, initial_hand_size, winner, games>>

(* ------------------------- main, after a game -------------------------- *)

\* "Play again?" answered yes: the game and the frame of run are gone
PlayAgain ==
    /\ pc = "won"
    /\ games < MaxGames
    /\ pc' = "main"
    /\ draw_pile' = <<>>
    /\ discard_pile' = <<>>
    /\ pointer' = 0
    /\ reversed' = FALSE
    /\ action' = "None" /\ card' = NoCard /\ skip' = FALSE
    /\ next_player' = NoPlayer
    /\ UNCHANGED <<hands, deck, initial_hand_size, winner, turns, games>>

\* "Play again?" answered no
Quit ==
    /\ pc = "won"
    /\ pc' = "exit"
    /\ UNCHANGED <<hands, deck, draw_pile, discard_pile, cycle,
                   initial_hand_size, winner, locals, turns, games>>

Next ==
    \/ \E value \in 0..MaxPlayers : GetPlayers(value)
    \/ SamePlayers
    \/ \E s \in 0..MaxShuffles : DeckInit(s)
    \/ GameInit
    \/ RunForcedDrawError
    \/ RunPass
    \/ RunWin
    \/ RunDraw
    \/ RunDrawError
    \/ RunPlay
    \/ RunPenaltyError
    \/ PlayAgain
    \/ Quit

Spec == Init /\ [][Next]_vars

(* ===================== the claims about the program ===================== *)

\* one iteration of the turn loop
TurnStep == pc = "turn" /\ turns' = turns + 1

\* an iteration in which a card was played that did not empty the hand
PlayStep == TurnStep /\ action' = "Play" /\ pc' # "won"

\* the players other than the one whose turn it is
Others == Players \ {pointer}

\* the direction of play as a step of the pointer
Direction(rev) == IF rev THEN -1 ELSE 1

(* ---- C1 ---- *)
\* C1: when a DrawTwo or WildDrawFour is played and the hand is not emptied,
\* the player who draws the penalty cards is the player who takes the
\* following turn, one step from the acting player in the direction of play.
C1_PenaltyToNextInTurn ==
    [][(PlayStep /\ pc' = "turn" /\ card'.type \in {DrawTwo, WildDrawFour})
        => /\ pointer' = (pointer + Direction(reversed)) % NumPlayers
           /\ Len(hands'[pointer']) > Len(hands[pointer'])]_vars

(* ---- C2 ---- *)
MaxStep == 2

\* C2: peek_next(step) is the element that next(step) would make current,
\* in both directions of the cycle.
C2_PeekNextIsNext ==
    pc = "turn" =>
        \A step \in 1..MaxStep :
            peek_next(pointer, reversed, NumPlayers, step)
                = next(pointer, reversed, NumPlayers, step, FALSE)

(* ---- C3 ---- *)
\* the top number cards of a pile in the order they come off
TopCards(pile, number) == [i \in 1..number |-> pile[Len(pile) - i + 1]]

\* the hand without the card that was played from it
Without(hand, played) ==
    SelectSeq(hand, LAMBDA c : c.id # played.id)

\* what the claim says the play of a draw card does, for the amount it names
PenaltyPaid(amount) ==
    /\ Len(draw_pile') = Len(pile_1) - amount
    /\ draw_pile' = SubSeq(pile_1, 1, Len(pile_1) - amount)
    /\ hands'[pointer] = Without(hand_1, card')
    /\ Len(hands'[pointer]) = Len(hand_1) - 1
    /\ \E q \in Others :
          /\ hands'[q] = hands[q] \o TopCards(pile_1, amount)
          /\ \A r \in Others \ {q} : hands'[r] = hands[r]

PenaltyOf(played) ==
    /\ played.type = DrawTwo => PenaltyPaid(2)
    /\ played.type = WildDrawFour => PenaltyPaid(4)

DrawCardPlayed == PlayStep /\ card'.type \in {DrawTwo, WildDrawFour}

\* C3 as stated: every play of a DrawTwo (WildDrawFour) that does not empty
\* the hand adds the top 2 (4) cards of the draw pile to exactly one other
\* hand and changes nothing else but the played card leaving the hand.
C3_PenaltyAlwaysPaid == [][DrawCardPlayed => PenaltyOf(card')]_vars

\* C3 amended: the same, when the draw pile holds at least 2 (4) cards as
\* the card is played, and the game goes on. When it holds fewer, the turn
\* ends in an error: the played card has left the acting hand, no hand
\* grows, the discard pile is as it was and the draw pile is left empty.
C3_PenaltyPaidFromPile ==
    [][DrawCardPlayed =>
        IF Len(pile_1) >= draw_amount(card'.type)
        THEN PenaltyOf(card') /\ pc' = "turn"
        ELSE /\ pc' = "error"
             /\ hands'[pointer] = Without(hand_1, card')
             /\ \A q \in Others : hands'[q] = hands[q]
             /\ discard_pile' = discard_pile
             /\ draw_pile' = <<>>]_vars

\* a DrawTwo and a WildDrawFour penalty can both be paid in the model
C3_Witness ==
    /\ pc = "turn" /\ action = "Play" /\ card.type = WildDrawFour
    /\ Len(hands[next_player]) >= initial_hand_size + 4

(* ---- C4 ---- *)
\* C4: a play that empties the hand ends run() in that turn with that player
\* as winner; the final card is not put on the discard pile, the cycle does
\* not move or turn, no other hand and no pile changes, the card gets no
\* color; and run() returns only a player whose hand is empty.
C4_WinEndsGame ==
    [][/\ (TurnStep /\ action' = "Play" /\ hands'[pointer] = <<>>)
            => /\ pc' = "won"
               /\ winner' = pointer
               /\ discard_pile' = discard_pile
               /\ pointer' = pointer /\ reversed' = reversed
               /\ draw_pile' = pile_1
               /\ \A q \in Others : hands'[q] = hands[q]
               /\ \E i \in DOMAIN hand_1 : hand_1[i] = card'
       /\ (TurnStep /\ pc' = "won")
            => /\ winner' \in Players
               /\ hands'[winner'] = <<>>]_vars

\* a game is won with a Reverse, Skip, DrawTwo or wild as the final card
C4_Witness ==
    /\ pc = "won" /\ winner \in Players /\ hands[winner] = <<>>
    /\ card.type > Nine

(* ---- C5 ---- *)
\* the cards of the piles and the hands
RECURSIVE AllHands(_)
AllHands(n) == IF n = 0 THEN <<>> ELSE AllHands(n - 1) \o hands[n - 1]

Located == draw_pile \o discard_pile \o AllHands(NumPlayers)

\* the ids of the cards of the deck of the current game
DeckIds == ((games - 1) * DeckSize)..(games * DeckSize - 1)

\* the cards of the current deck that are in a pile or a hand
LocatedOfDeck == SelectSeq(Located, LAMBDA c : c.id \in DeckIds)

\* C5 as stated: from the end of construction through the state in which the
\* winner is returned, the sizes of the piles and hands sum to 108.
C5_AlwaysAllCards ==
    pc \in {"turn", "won"} => Len(Located) = 108

\* C5 amended: no card of the game's deck is ever in two places; at every
\* turn of a running game each of the 108 cards of the game's deck is in
\* exactly one of the piles and hands; the card whose play empties a hand is
\* put nowhere, so when the winner is returned every card of the deck but
\* that one is in exactly one of them.
C5_CardsRelocated ==
    LET holds(located, ids) ==
            /\ pc \in {"turn", "won", "error"} => Cardinality(ids) = Len(located)
            /\ pc = "turn" => ids = DeckIds /\ Len(located) = 108
            /\ pc = "won" => /\ ids = DeckIds \ {card.id}
                             /\ \A i \in DOMAIN Located : Located[i].id # card.id
        of_deck(located) == holds(located, {located[i].id : i \in DOMAIN located})
    IN  of_deck(LocatedOfDeck)

\* a game is won after cards have moved to the discard pile and to a hand
C5_Witness ==
    /\ pc = "won" /\ Len(discard_pile) > 1
    /\ \E p \in Players : Len(hands[p]) > initial_hand_size

(* ---- C6 ---- *)
\* C6: every game starts with each player holding exactly initial_hand_size
\* cards, all of them cards of that game's deck.
C6_FreshHands ==
    [][(pc = "dealing" /\ pc' = "turn")
        => \A p \in DOMAIN hands' :
              /\ Len(hands'[p]) = initial_hand_size'
              /\ \A i \in DOMAIN hands'[p] : hands'[p][i] \in Range(deck)]_vars

(* ---- C7 ---- *)
MaxQty == 4

\* C7: take_from_pile moves exactly the top qty cards from the pile to the
\* hand when the pile holds that many, and otherwise fails and leaves pile
\* and hand as they were.
C7_TakeAtomic ==
    pc = "turn" =>
        \A qty \in 1..MaxQty :
            LET got == take_from_pile(hands[pointer], draw_pile, qty)
            IN  IF qty <= Len(draw_pile)
                THEN /\ ~got.raised
                     /\ got.pile = SubSeq(draw_pile, 1, Len(draw_pile) - qty)
                     /\ got.hand = hands[pointer] \o TopCards(draw_pile, qty)
                ELSE /\ got.raised
                     /\ got.pile = draw_pile
                     /\ got.hand = hands[pointer]

(* ---- C8 ---- *)
\* C8: a Skip that does not empty the hand moves the turn two positions from
\* the acting player in the direction of play, back to the acting player
\* when there are two players, and makes no player draw; every other
\* completed turn moves it one position in the direction of play.
C8_SkipAdvancesTwo ==
    [][(TurnStep /\ pc' = "turn")
        => IF action' = "Play" /\ card'.type = Skip
           THEN /\ pointer' = (pointer + 2 * Direction(reversed)) % NumPlayers
                /\ reversed' = reversed
                /\ NumPlayers = 2 => pointer' = pointer
                /\ \A q \in Others : hands'[q] = hands[q]
                /\ draw_pile' = pile_1
           ELSE pointer' = (pointer + Direction(reversed')) % NumPlayers]_vars

\* a Skip has been played against the initial direction among three players
C8_Witness ==
    /\ pc = "turn" /\ action = "Play" /\ card.type = Skip /\ skip
    /\ reversed /\ NumPlayers = 3

(* ---- C9 ---- *)
\* the cards that have not been played: in the deck, the draw pile, a hand
Unplayed ==
    Range(deck) \cup Range(draw_pile)
        \cup UNION {Range(hands[p]) : p \in DOMAIN hands}

CardsIn == Unplayed \cup Range(discard_pile)

\* C9 as stated: a wild receives a color at the moment it is played.
C9_PlayedWildHasColor ==
    (action = "Play" /\ isWild(card.type)) => card.color \in Colors

\* C9 amended: a wild has no color in the deck, the draw pile and the hands;
\* every card on the discard pile has a color; a non-wild card has the color
\* it was created with; and the only change of a color is that of a wild
\* without a color to one of the four colors in the turn that puts it on top
\* of the discard pile (a wild whose play empties the hand, or whose penalty
\* the draw pile cannot pay, is put nowhere and keeps no color).
C9_ColorSetOnDiscard ==
    [][/\ \A c \in Unplayed' : isWild(c.type) => c.color = None
       /\ \A c \in Range(discard_pile') : c.color \in Colors
       /\ \A c \in CardsIn' :
             ~isWild(c.type) => c.color = StandardCards[(c.id % DeckSize) + 1].color
       /\ \A c \in CardsIn' \ CardsIn :
             \/ pc = "new_game"
             \/ /\ PlayStep /\ pc' = "turn"
                /\ c = card' /\ c = top_card(discard_pile')
                /\ isWild(c.type) /\ c.color \in Colors
                /\ [c EXCEPT !.color = None] \in Range(hand_1)]_vars

\* a wild has been given a color and lies on top of the discard pile
C9_Witness ==
    /\ pc = "turn" /\ action = "Play" /\ card.type = Wild
    /\ card.color = Green /\ top_card(discard_pile) = card

(* ---- C10 ---- *)
Count(cards, color, type) ==
    Cardinality({i \in DOMAIN cards : cards[i].color = color /\ cards[i].type = type})

\* C10: every deck built has 108 cards: per color one Zero and two of each
\* of One..Nine, Skip, Reverse and DrawTwo, and four Wild and four
\* WildDrawFour without a color; the shuffle only reorders the cards made.
C10_DeckContents ==
    pc = "dealing" =>
        /\ Len(deck) = 108
        /\ \A color \in {Red, Blue, Green, Yellow} :
              /\ Count(deck, color, Zero) = 1
              /\ \A type \in 1..DrawTwo : Count(deck, color, type) = 2
        /\ Count(deck, None, Wild) = 4
        /\ Count(deck, None, WildDrawFour) = 4
        /\ Range(deck) = Range(standard_deck((games - 1) * DeckSize))

\* a deck has been built whose order is not the order of construction
C10_Witness ==
    /\ pc = "dealing"
    /\ deck[1] # standard_deck((games - 1) * DeckSize)[1]
    /\ deck[Len(deck)].type # Wild

(* ---- C11 ---- *)
\* the cards a hand can hold: those of the deck as they are made
Candidates == Range(StandardCards)

\* the cards a discard pile can show: every card with one of the four colors
References == {Card(color, type) : color \in Colors, type \in Range(CardType)}

\* the rule of the claim
Legal(reference, candidate) ==
    \/ candidate.type = Wild \/ candidate.type = WildDrawFour
    \/ candidate.color = reference.color
    \/ candidate.type = reference.type

\* C11: is_valid_play(reference, candidate) is true exactly when the
\* candidate is a wild or has the reference's color or type, so every card
\* is legal against itself, a wild against every reference, and a card of
\* the color given to a wild against that wild; has_valid_play is true
\* exactly when some card of the hand is legal.
C11_ValidPlayRule ==
    /\ pc = "dealing" =>
          \A reference \in References :
             /\ is_valid_play(reference, reference)
             /\ \A candidate \in Candidates :
                   /\ is_valid_play(reference, candidate) <=> Legal(reference, candidate)
                   /\ isWild(candidate.type) => is_valid_play(reference, candidate)
                   /\ (isWild(reference.type) /\ candidate.color = reference.color)
                         => is_valid_play(reference, candidate)
    /\ pc = "turn" =>
          \A p \in Players :
             /\ has_valid_play(hands[p], current)
                   <=> \E i \in DOMAIN hands[p] : Legal(current, hands[p][i])
             /\ \A i \in DOMAIN hands[p] :
                   is_valid_play(current, hands[p][i]) <=> Legal(current, hands[p][i])

\* a wild with its color is on top of the discard pile; one player holds a
\* card that matches it by that color only, another player has no legal play
C11_Witness ==
    /\ pc = "turn" /\ isWild(current.type) /\ current.color \in Colors
    /\ \E p \in Players : \E i \in DOMAIN hands[p] :
          /\ hands[p][i].color = current.color
          /\ ~isWild(hands[p][i].type)
          /\ is_valid_play(current, hands[p][i])
    /\ \E q \in Players : hands[q] # <<>> /\ ~has_valid_play(hands[q], current)

(* ------------------------- a Cycle on its own -------------------------- *)

\* longest list a Cycle is made of
MaxLength == 5
\* calls made on one Cycle
MaxCalls == 5

\* Cycle(lst) for a list of 1..MaxLength elements. Here pc is "cycle", hands
\* is the list, turns counts the calls made and action names the last one.
CycleInit ==
    /\ pc = "cycle"
    /\ hands \in {get_players(length) : length \in 1..MaxLength}
    /\ pointer = 0
    /\ reversed = FALSE
    /\ turns = 0
    /\ action = "None"
    /\ deck = <<>> /\ draw_pile = <<>> /\ discard_pile = <<>>
    /\ initial_hand_size = 0 /\ winner = NoPlayer /\ games = 0
    /\ card = NoCard /\ skip = FALSE /\ next_player = NoPlayer

Called(name) ==
    /\ pc = "cycle"
    /\ turns < MaxCalls
    /\ turns' = turns + 1
    /\ action' = name
    /\ UNCHANGED <<pc, hands, deck, draw_pile, discard_pile, initial_hand_size,
                   winner, card, skip, next_player, games>>

CallNext(step, skipping) ==
    /\ Called("next")
    /\ pointer' = next(pointer, reversed, NumPlayers, step, skipping)
    /\ UNCHANGED reversed

CallPrevious(step) ==
    /\ Called("previous")
    /\ pointer' = previous(pointer, reversed, NumPlayers, step)
    /\ UNCHANGED reversed

CallReverse ==
    /\ Called("reverse")
    /\ reversed' = reverse(reversed)
    /\ UNCHANGED pointer

CycleStep ==
    \/ \E step \in 0..MaxStep, skipping \in BOOLEAN : CallNext(step, skipping)
    \/ \E step \in 0..MaxStep : CallPrevious(step)
    \/ CallReverse

CycleSpec == CycleInit /\ [][CycleStep]_vars

(* ---- C12 ---- *)
\* the pointer after a number of calls of advance(1)
RECURSIVE Advanced(_, _, _, _)
Advanced(position, rev, length, calls) ==
    IF calls = 0
    THEN position
    ELSE Advanced(advance(position, rev, length, 1), rev, length, calls - 1)

\* C12: after any calls of next, previous and reverse the pointer is in
\* 0..n-1; n calls of advance(1) from position 0 forward end at 0; while the
\* cycle is reversed advance(1) moves the pointer from p to (p-1) mod n; and
\* reverse toggles the flag and does not move the pointer.
C12_CyclePointer ==
    [][/\ pointer' \in 0..(NumPlayers - 1)
       /\ Advanced(0, FALSE, NumPlayers, NumPlayers) = 0
       /\ reversed' =>
             advance(pointer', reversed', NumPlayers, 1)
                = (IF pointer' = 0 THEN NumPlayers - 1 ELSE pointer' - 1)
       /\ action' = "reverse" =>
             /\ pointer' = pointer
             /\ reversed' = ~reversed]_vars

\* a reversed cycle of three or more has wrapped from position 0 to the end
C12_Witness ==
    /\ pc = "cycle" /\ NumPlayers >= 3 /\ turns = 2
    /\ reversed /\ action = "next" /\ pointer = NumPlayers - 1

(* ---- C13 ---- *)
\* largest count typed at the prompt of get_players
MaxCount == 11

\* what is typed: a number, or a text that is no number
Entries ==
    [numeric : {TRUE}, value : (-1)..MaxCount]
        \cup [numeric : {FALSE}, value : {0}]

\* C13: get_players accepts an entry exactly when it is a number from 2
\* through 10, and an accepted count yields that many players.
C13_CountAccepted ==
    pc = "main" =>
        \A entry \in Entries :
           /\ accepted(entry) <=> (entry.numeric /\ entry.value \in 2..10)
           /\ accepted(entry)
                 => Cardinality(DOMAIN get_players(entry.value)) = entry.value

(* ---- C14 ---- *)
\* the player whose turn starts has no legal play against the discard top
NoLegalPlay ==
    \A i \in DOMAIN hands[pointer] : ~Legal(current, hands[pointer][i])

\* the pile without its top card
Front(pile) == SubSeq(pile, 1, Len(pile) - 1)

\* the hand of the player with the top card of the draw pile added
WithDrawn == hands[pointer] \o <<draw_pile[Len(draw_pile)]>>

\* the turn of a player who has drawn the one card and is or is not asked
AfterForcedDraw ==
    IF \A i \in DOMAIN WithDrawn : ~Legal(current, WithDrawn[i])
    THEN /\ action' = "None" /\ card' = NoCard /\ ~skip'
         /\ pc' = "turn"
         /\ hands' = [hands EXCEPT ![pointer] = WithDrawn]
         /\ draw_pile' = Front(draw_pile)
         /\ discard_pile' = discard_pile
         /\ reversed' = reversed
         /\ pointer' = (pointer + Direction(reversed)) % NumPlayers
    ELSE /\ action' \in {"Play", "Draw"}
         /\ action' = "Play" =>
               /\ \E i \in DOMAIN WithDrawn : WithDrawn[i].id = card'.id
               /\ hands'[pointer] = Without(WithDrawn, card')
         /\ (action' = "Draw" /\ pc' = "turn") =>
               /\ hands'[pointer] = WithDrawn \o <<top_card(Front(draw_pile))>>
               /\ draw_pile' = Front(Front(draw_pile))

\* the turn of a player who has a legal play: nothing is drawn before the
\* action is asked for, so a chosen draw takes the card that was on top
NotForced ==
    /\ action' \in {"Play", "Draw"}
    /\ action' = "Play" =>
          /\ \E i \in DOMAIN hands[pointer] : hands[pointer][i].id = card'.id
          /\ hands'[pointer] = Without(hands[pointer], card')
          /\ card'.type \notin {DrawTwo, WildDrawFour} => draw_pile' = draw_pile
    /\ (action' = "Draw" /\ pc' = "turn") =>
          /\ hands'[pointer] = WithDrawn
          /\ draw_pile' = Front(draw_pile)

\* C14 as stated: a player with no legal play at the start of the turn draws
\* exactly the top card of the draw pile; if there is still no legal play the
\* turn ends with no action asked for, the discard pile unchanged and the
\* cycle one step on; a player with a legal play draws nothing before being
\* asked.
C14_ForcedDrawAlways ==
    [][TurnStep =>
          IF NoLegalPlay
          THEN draw_pile # <<>> /\ AfterForcedDraw
          ELSE NotForced]_vars

\* C14 amended: the same when the draw pile is not empty; a forced draw from
\* an empty draw pile ends the turn in an error with no action asked for and
\* no hand, pile or cycle variable changed.
C14_ForcedDrawFromPile ==
    [][TurnStep =>
          IF NoLegalPlay
          THEN IF draw_pile # <<>>
               THEN AfterForcedDraw
               ELSE /\ pc' = "error" /\ action' = "None"
                    /\ winner' = NoPlayer
                    /\ UNCHANGED <<hands, draw_pile, discard_pile, cycle>>
          ELSE NotForced]_vars

\* in the first game a turn has ended after the forced draw with no action
C14_Witness ==
    /\ pc = "turn" /\ games = 1 /\ turns > 0 /\ action = "None"
    /\ \E p \in Players : Len(hands[p]) = initial_hand_size + 1

Entered(hand, reference) ==
    {[draw |-> TRUE, color |-> None, type |-> NoType],
     [draw |-> FALSE, color |-> None, type |-> NoType],
     [draw |-> FALSE, color |-> Red, type |-> Wild],
     [draw |-> FALSE, color |-> None, type |-> reference.type]}
        \cup {[draw |-> FALSE, color |-> hand[i].color, type |-> hand[i].type] :
                i \in DOMAIN hand}

\* a text the claim says is rejected: no card, a card not held, or a held
\* card that is not legal
RejectedText(hand, reference, choice) ==
    /\ ~choice.draw
    /\ \/ choice.type = NoType
       \/ \A i \in DOMAIN hand :
             ~(hand[i].color = choice.color /\ hand[i].type = choice.type)
       \/ \E i \in DOMAIN hand :
             /\ hand[i].color = choice.color /\ hand[i].type = choice.type
             /\ ~Legal(reference, hand[i])

\* what the claim says of a result of get_action for a hand
ResultOf(hand, reference, got) ==
    /\ got.type = "Play" =>
          /\ Legal(reference, got.card)
          /\ \E i \in DOMAIN hand :
                /\ hand[i] = got.card
                /\ got.hand = SubSeq(hand, 1, i - 1) \o SubSeq(hand, i + 1, Len(hand))
          /\ Len(got.hand) = Len(hand) - 1
    /\ got.type \in {"Draw", "Retry"} => got.hand = hand /\ got.card = NoCard

\* one text of each kind the claim says is rejected: a text that is no card,
\* the name of a card that is not held, and the name of the first held card
\* that is not legal, if there is one
Rejections(hand, reference) ==
    {[draw |-> FALSE, color |-> None, type |-> NoType],
     [draw |-> FALSE, color |-> Red, type |-> Wild]}
        \cup {[draw |-> FALSE, color |-> hand[i].color, type |-> hand[i].type] :
                i \in {j \in DOMAIN hand :
                         /\ ~Legal(reference, hand[j])
                         /\ \A k \in 1..(j - 1) : Legal(reference, hand[k])}}

\* the claim for the result of the loop on one text
OneText(hand, reference, choice, got) ==
    /\ ResultOf(hand, reference, got)
    /\ got = get_action_loop(hand, reference, <<choice>>, None, NoType, FALSE)
    /\ RejectedText(hand, reference, choice) <=> got.type = "Retry"
    /\ find_card(hand, choice.color, choice.type) = 0 =>
          play_card(hand, choice.color, choice.type)
             = [card |-> NoCard, hand |-> hand]

\* the claim for one call of get_action and the texts typed in it: one
\* text, or a rejected text and then another one
GetActionChecked(hand, reference, texts, rejections) ==
    /\ \A choice \in texts :
          OneText(hand, reference, choice, get_action(hand, reference, choice))
    /\ \A first \in rejections :
          /\ RejectedText(hand, reference, first)
          /\ \A second \in texts :
                get_action_loop(hand, reference, <<first, second>>,
                                None, NoType, FALSE)
                   = get_action(hand, reference, second)

\* C16: get_action returns Play only for a held card that is legal against
\* the reference, with exactly that card removed from the hand; a rejected
\* text and a Draw leave the hand unchanged; play_card for a card that is
\* not held returns not-found and leaves the hand unchanged.
C16_GetActionResult ==
    Asked =>
       /\ Typed \subseteq Entered(hand_1, current)
       /\ GetActionChecked(hand_1, current, Entered(hand_1, current),
                           Rejections(hand_1, current))

\* a card has been played, and the player now asked holds a legal card and
\* a card that is not legal
C16_Witness ==
    /\ Asked /\ action = "Play" /\ Len(discard_pile) > 1
    /\ \E i, j \in DOMAIN hand_1 :
          /\ Legal(current, hand_1[i])
          /\ ~Legal(current, hand_1[j])

(* ---- C17 ---- *)
\* the deck that remains after the deal of the game being constructed
Remaining == SubSeq(deck, 1, Len(deck) - NumPlayers * initial_hand_size')

\* the place of the first numeric card met from the top, the end of the list
FirstNumeric(cards) ==
    CHOOSE k \in DOMAIN cards :
        /\ cards[k].type \in 0..9
        /\ \A j \in (k + 1)..Len(cards) : cards[j].type \notin 0..9

\* C17: construction leaves on the discard pile exactly the first numeric
\* card met from the top of the deck that remains after the deal; the cards
\* that lay above it are at the bottom of the draw pile in the order they
\* had, and the other cards are above them in the order they had.
C17_StartCard ==
    [][(pc = "dealing" /\ pc' = "turn") =>
          /\ Len(discard_pile') = 1
          /\ discard_pile'[1].type \in 0..9
          /\ discard_pile'[1] = Remaining[FirstNumeric(Remaining)]
          /\ draw_pile' =
                SubSeq(Remaining, FirstNumeric(Remaining) + 1, Len(Remaining))
                   \o SubSeq(Remaining, 1, FirstNumeric(Remaining) - 1)]_vars

\* a first game has been constructed with two cards set aside, which are the
\* two bottom cards of the draw pile in the order they had on top of the deck
C17_Witness ==
    /\ pc = "turn" /\ games = 1 /\ turns = 0 /\ Len(discard_pile) = 1
    /\ draw_pile[1].type > Nine /\ draw_pile[2].type > Nine
    /\ \E s \in 0..MaxShuffles :
          \E left \in {after_deal(Deck(0, s), NumPlayers, initial_hand_size)} :
             /\ left[Len(left)] = draw_pile[2]
             /\ left[Len(left) - 1] = draw_pile[1]
             /\ left[Len(left) - 2] = discard_pile[1]

(* ---- C18 ---- *)
\* the player who took the turn before this one, when this game had one:
\* the last advance went one step in the direction of play, two after a Skip
LastActor ==
    (pointer - Direction(reversed) * (IF skip THEN 2 ELSE 1)) % NumPlayers

\* a Reverse is played in this turn, the hand is not emptied, the game goes on
ReversePlayed == PlayStep /\ pc' = "turn" /\ card'.type = Reverse

\* the direction is toggled once and the turn passes one step in the new
\* direction from the position of the acting player
ReverseEffect ==
    /\ reversed' = ~reversed
    /\ pointer' = (pointer + Direction(reversed')) % NumPlayers
    /\ pointer' = (pointer - Direction(reversed)) % NumPlayers
    /\ NumPlayers = 2 => pointer' = 1 - pointer

\* C18 as stated: a Reverse toggles the direction and passes the turn one
\* step in the new direction, which among 3 or more players is the player
\* who played immediately before the acting player; no other turn changes
\* the direction.
C18_ReverseToLastActor ==
    [][TurnStep =>
          IF ReversePlayed
          THEN /\ ReverseEffect
               /\ NumPlayers >= 3 => pointer' = LastActor
          ELSE reversed' = reversed]_vars

\* C18 amended: the same, the player the turn passes to being the one next
\* to the acting player against the old direction of play, whoever took the
\* turn before.
C18_ReverseToNeighbour ==
    [][TurnStep =>
          IF ReversePlayed THEN ReverseEffect ELSE reversed' = reversed]_vars

\* among three players a second Reverse has set the direction forward again
C18_Witness ==
    /\ pc = "turn" /\ NumPlayers = 3 /\ action = "Play" /\ card.type = Reverse
    /\ ~reversed /\ turns >= 2

(* ---- C19 ---- *)
Ids(cards) == {cards[i].id : i \in DOMAIN cards}

\* the draw pile as it is when the action of the turn asks for cards: the
\* forced draw, if there was one, has taken its card
PileAtAction == IF NoLegalPlay THEN Front(draw_pile) ELSE draw_pile

\* the cards the action of the turn asks of the draw pile
Requested ==
    CASE action' = "Draw" -> 1
      [] action' = "Play" /\ hands'[pointer] # <<>> /\ card'.type = DrawTwo -> 2
      [] action' = "Play" /\ hands'[pointer] # <<>> /\ card'.type = WildDrawFour -> 4
      [] OTHER -> 0

\* C19: in a running game the draw pile only loses cards from its top and
\* the discard pile only gains cards on its top, and no card of the discard
\* pile comes into the draw pile; a forced draw, a chosen draw or a penalty
\* that asks for more cards than the draw pile holds ends run() in an error
\* with no winner, and nothing else does.
C19_NeverRefilled ==
    [][/\ TurnStep =>
             /\ Len(draw_pile') <= Len(draw_pile)
             /\ draw_pile' = SubSeq(draw_pile, 1, Len(draw_pile'))
             /\ Len(discard_pile') >= Len(discard_pile)
             /\ discard_pile = SubSeq(discard_pile', 1, Len(discard_pile))
             /\ Ids(draw_pile') \cap Ids(discard_pile) = {}
             /\ pc' = "error" <=>
                   \/ NoLegalPlay /\ draw_pile = <<>>
                   \/ ~(NoLegalPlay /\ draw_pile = <<>>)
                         /\ Requested > Len(PileAtAction)
             /\ pc' = "error" => winner' = NoPlayer
       /\ pc = "error" => pc' = "error" /\ winner' = NoPlayer]_vars

\* a WildDrawFour has been played that the draw pile could not pay
C19_Witness ==
    /\ pc = "error" /\ winner = NoPlayer
    /\ action = "Play" /\ card.type = WildDrawFour
    /\ draw_pile = <<>> /\ Len(discard_pile) >= 1

(* ---- C20 ---- *)
\* C20: the bottom card of the discard pile is the numeric starting card of
\* the game's deck, every card above it is a wild or has the color or the
\* type of the card directly beneath it, and every card of the pile, so
\* every reference of a legality check, has a color.
C20_DiscardChain ==
    pc \in {"turn", "won", "error"} =>
       /\ discard_pile # <<>>
       /\ discard_pile[1].type \in 0..9
       /\ discard_pile[1].id \in DeckIds
       /\ \A i \in 2..Len(discard_pile) :
             \/ discard_pile[i].type \in {Wild, WildDrawFour}
             \/ discard_pile[i].color = discard_pile[i - 1].color
             \/ discard_pile[i].type = discard_pile[i - 1].type
       /\ \A i \in DOMAIN discard_pile :
             discard_pile[i].color \in {Red, Blue, Green, Yellow}
       /\ current.color \in {Red, Blue, Green, Yellow}

\* the pile holds a wild, a card above it that matches it only by the color
\* the wild was given, and a card that matches the one beneath it only by type
C20_Witness ==
    /\ pc = "turn"
    /\ \E i \in 2..Len(discard_pile) :
          /\ isWild(discard_pile[i - 1].type)
          /\ ~isWild(discard_pile[i].type)
          /\ discard_pile[i].color = discard_pile[i - 1].color
    /\ \E j \in 2..Len(discard_pile) :
          /\ discard_pile[j].type = discard_pile[j - 1].type
          /\ discard_pile[j].color # discard_pile[j - 1].color

(* ----------------------- Game.__init__ on its own ---------------------- *)
\* A second machine over the same variables: one construction of a Game, the
\* deal in one step and the while loop one iteration at a time. Here turns
\* counts the iterations of the while loop and card is its local top_card.

\* most players in the list a Game is constructed with
MaxSeats == 11

\* most cards the large hand sizes leave in the deck after the deal
MaxLeft == 8

\* most number cards under the other cards in a buried deck
MaxBuried == 6

\* the test of the while loop
is_number(c) == c.type \in NumberTypes

\* permutations random.shuffle can leave that the cuts and strides do not
\* give: from the bottom, k number cards, then every card that is no number,
\* then the other number cards
buried(cards, k) ==
    LET number_cards == SelectSeq(cards, is_number)
        others == SelectSeq(cards, LAMBDA c : ~is_number(c))
    IN  SubSeq(number_cards, 1, k) \o others
            \o SubSeq(number_cards, k + 1, Len(number_cards))

\* the decks Deck() gives in this machine
SetupDecks ==
    {Deck(0, s) : s \in 0..MaxShuffles}
        \cup {buried(standard_deck(0), k) : k \in 0..MaxBuried}

\* the values of initial_hand_size: none, one, the default, and the ones
\* that leave few cards, none, or too few for the deal
SetupHandSizes(n) ==
    {0, 1, DefaultHandSize}
        \cup {h \in 1..DeckSize : DeckSize - n * h \in (-n)..MaxLeft}

SetupInit ==
    /\ pc = "deal"
    /\ \E n \in 2..MaxSeats :
          /\ hands = get_players(n)
          /\ initial_hand_size \in SetupHandSizes(n)
    /\ deck \in SetupDecks
    /\ draw_pile = <<>>
    /\ discard_pile = <<>>
    /\ pointer = 0
    /\ reversed = FALSE
    /\ winner = NoPlayer
    /\ action = "None"
    /\ card = NoCard
    /\ skip = FALSE
    /\ next_player = NoPlayer
    /\ turns = 0
    /\ games = 1

\* the cards player p has taken when deck.pop() raises IndexError in the
\* deal: every card of the deck has been popped, in turn for the players
rounds_before_raise(cards, n, p) == (Len(cards) - p + n - 1) \div n

\* the two for loops
SetupDeal ==
    /\ pc = "deal"
    /\ IF NumPlayers * initial_hand_size <= Len(deck)
       THEN /\ hands' = [p \in Players |->
                   take_cards(hands[p],
                              dealt(deck, NumPlayers, initial_hand_size, p))]
            /\ deck' = after_deal(deck, NumPlayers, initial_hand_size)
            /\ pc' = "search"
       ELSE /\ hands' = [p \in Players |->
                   take_cards(hands[p],
                              dealt(deck, NumPlayers,
                                    rounds_before_raise(deck, NumPlayers, p), p))]
            /\ deck' = <<>>
            /\ pc' = "raised"
    /\ UNCHANGED <<draw_pile, discard_pile, cycle, initial_hand_size, winner,
                   locals, turns, games>>

\* a put back that leaves the card on top
insert_on_top(cards, c) == Append(cards, c)

\* deck.insert(0, top_card)
insert_0(cards, c) == <<c>> \o cards

\* the iterations counted, up to one more than the cards of a deck
counted(iterations) ==
    IF iterations <= DeckSize THEN iterations + 1 ELSE iterations

\* one iteration of the while loop; the break is followed by the three
\* assignments that end __init__
SetupInspect ==
    /\ pc = "search"
    /\ IF deck = <<>>
       THEN /\ pc' = "raised"
            /\ UNCHANGED <<deck, draw_pile, discard_pile, card, turns>>
       ELSE /\ card' = top_card(deck)
            /\ turns' = counted(turns)
            /\ IF is_number(top_card(deck))
               THEN /\ discard_pile' = <<top_card(deck)>>
                    /\ draw_pile' = SubSeq(deck, 1, Len(deck) - 1)
                    /\ deck' = <<>>
                    /\ pc' = "constructed"
               ELSE /\ deck' = insert_0(SubSeq(deck, 1, Len(deck) - 1),
                                        top_card(deck))
                    /\ pc' = "search"
                    /\ UNCHANGED <<draw_pile, discard_pile>>
    /\ pointer' = 0
    /\ reversed' = FALSE
    /\ UNCHANGED <<hands, initial_hand_size, winner, action, skip,
                   next_player, games>>

SetupNext == SetupDeal \/ SetupInspect

\* the interpreter keeps running the constructor until it returns or raises
SetupSpec == SetupInit /\ [][SetupNext]_vars /\ WF_vars(SetupNext)

(* ---- C21 ---- *)
\* a deck that holds a number card
HasNumber(cards) == \E i \in DOMAIN cards : is_number(cards[i])

\* the cards the while loop has put back so far: each iteration but a last
\* one that broke out of the loop has put one card in at index 0
PutBack(cards, iterations) == SubSeq(cards, 1, iterations)

\* the deck the deal left, from the piles of the constructed game: the
\* cards put back were on top of the starting card, the one put back last
\* next to it
LeftByDeal ==
    SubSeq(draw_pile, turns, Len(draw_pile))
        \o discard_pile
        \o PutBack(draw_pile, turns - 1)

\* a construction with one of the allowed player counts and the default hand
Allowed == NumPlayers \in 2..10 /\ initial_hand_size = DefaultHandSize

\* the search inspects no card twice while a number card is in the deck:
\* the cards inspected so far are the ones put back, none of them is a
\* number card, and the card on top is not among them
SearchOnce ==
    (pc = "search" /\ HasNumber(deck)) =>
        /\ turns < Len(deck)
        /\ \A i \in 1..turns : ~is_number(deck[i])
        /\ Cardinality(Ids(deck)) = Len(deck)

\* the constructed game: the starting card is a number card, it is the
\* first number card from the top of the deck the deal left, the cards
\* above it are under the draw pile, and every card of that deck was
\* inspected at most once
Constructed ==
    pc = "constructed" =>
        /\ discard_pile = <<card>> /\ is_number(card)
        /\ turns \in 1..(Len(draw_pile) + 1)
        /\ \A i \in 1..(turns - 1) : ~is_number(draw_pile[i])
        /\ Cardinality(Ids(LeftByDeal)) = Len(LeftByDeal)
        /\ find_top_card(LeftByDeal)
              = [top_card |-> card, deck |-> draw_pile]

\* after the deal of an allowed construction a number card is left, whatever
\* the shuffle: the deck has fewer cards that are no number than the deal
\* of ten hands of seven leaves
NumberCardLeft ==
    /\ Len(SelectSeq(StandardCards, LAMBDA c : ~is_number(c)))
          < DeckSize - 10 * DefaultHandSize
    /\ (Allowed /\ pc = "search" /\ turns = 0) => HasNumber(deck)
    /\ (Allowed /\ pc = "deal") =>
          NumPlayers * initial_hand_size < Len(deck)

\* C21: the construction of a Game with 2 to 10 players and the default
\* hand of 7 ends with a starting card, because a number card is left in the
\* deck after the deal; and for any players and hand size, when the deck
\* the deal left holds a number card the search ends having inspected each
\* card of it at most once.
C21_SetupTerminates ==
    /\ [](NumberCardLeft /\ SearchOnce /\ Constructed)
    /\ [][(pc = "search" /\ HasNumber(deck)) =>
             /\ card' = top_card(deck)
             /\ card'.id \notin Ids(PutBack(deck, turns))
             /\ turns' = turns + 1]_vars
    /\ (Allowed /\ pc = "deal") ~> (pc = "constructed")
    /\ (pc = "search" /\ HasNumber(deck)) ~> (pc = "constructed")

\* ten players with hands of seven, and the search has passed over every
\* card that is no number before it found the starting card
C21_Witness ==
    /\ pc = "constructed" /\ NumPlayers = 10
    /\ initial_hand_size = DefaultHandSize
    /\ turns = Len(SelectSeq(StandardCards, LAMBDA c : ~is_number(c))) + 1

====
